---- MODULE Spec2Model ----
(***************************************************************************)
(* Model of the Todo API backend (backend/app): the todos table and the    *)
(* CRUD functions of crud.py behind the handlers of routers/todos.py, and  *)
(* the token functions of auth.py.                                         *)
(*                                                                         *)
(* An Optional[T] value is a sequence: <<>> is None, <<v>> is the value v. *)
(***************************************************************************)
EXTENDS Integers, Sequences, FiniteSets, TLC

VARIABLES
    todos,      \* the rows of table "todos" (models.Todo), a set of records
    nextId,     \* the next value of the IDENTITY primary key column
    dbNow,      \* the last reading of the database server's clock (func.now())
    request,    \* the last HTTP request routed to a todo handler
    response,   \* the response the handler gave to it
    now,        \* the application's clock (datetime.utcnow()), in ticks
    advances,   \* how often the application's clock has been seen to move
    issued,     \* the tokens handed out so far, each with its time of issue
    authRequest,    \* the last call into auth.py, or request for its route
    authResponse,   \* what that call returned or raised
    reqs            \* the todo requests in flight, each with its session (get_db)

storeVars == <<todos, nextId, dbNow, request, response>>
authVars == <<now, advances, issued, authRequest, authResponse>>
vars == <<todos, nextId, dbNow, request, response,
          now, advances, issued, authRequest, authResponse, reqs>>

\* ------------------------------------------------------------------ bounds
MaxTodos == 2       \* rows ever created
MaxDbNow == 1       \* latest reading of the database clock
TicksPerSecond == 2 \* resolution of the application's clock
MaxAdvances == 4    \* moves of the application's clock
MaxTokens == 2      \* tokens handed out
MaxRequests == 2    \* todo requests in flight together

\* ------------------------------------------------------------------ values
None == <<>>
Some(v) == <<v>>

Titles == {"", "a"}
Descriptions == {"d"}
TodoIds == 1..(MaxTodos + 1)

\* schemas.TodoCreate: title is required, description is optional
TodoCreate == [title : Titles, description : {None} \cup {Some(d) : d \in Descriptions}]

\* schemas.TodoUpdate: every field is optional and defaults to None; the
\* title an update carries here is the empty one
TodoUpdate ==
    [title : {None, Some("")},
     description : {None} \cup {Some(d) : d \in Descriptions},
     is_completed : {None, Some(TRUE), Some(FALSE)}]

NoBody == [title |-> None, description |-> None, is_completed |-> None]

\* ------------------------------------------------------------------ crud.py
\* db.query(Todo).filter(Todo.id == todo_id).first()
get_todo_by_id(db, todo_id) ==
    IF \E r \in db : r.id = todo_id
    THEN Some(CHOOSE r \in db : r.id = todo_id)
    ELSE None

\* db.query(Todo).order_by(Todo.created_at.desc()).all(): the results the
\* query may give; ORDER BY leaves the order of rows with equal keys open
get_todos(db) ==
    { s \in [1..Cardinality(db) -> db] :
        /\ \A i, j \in 1..Cardinality(db) : i # j => s[i] # s[j]
        /\ \A i, j \in 1..Cardinality(db) : i < j => s[i].created_at >= s[j].created_at }

\* a key taken from the rows at hand: one more than the largest id in the table
identity_max_plus_one(db, seed) ==
    IF db = {} THEN 1 ELSE (CHOOSE m \in {r.id : r \in db} : \A r \in db : r.id <= m) + 1

\* id = Column(Integer, primary_key=True): an IDENTITY column, whose values
\* come from a seed that only grows, whatever rows are left in the table
identity(db, seed) == seed

\* a create that drops the description
create_todo_no_description(db, todo, newId, created_at) ==
    LET db_todo == [id |-> newId,
                    title |-> todo.title,
                    description |-> None,
                    is_completed |-> FALSE,
                    created_at |-> created_at]
    IN [db |-> db \cup {db_todo}, ret |-> Some(db_todo)]

\* models.Todo(title=, description=), db.add, db.commit, db.refresh: the
\* server fills in id (IDENTITY), is_completed (default) and created_at
create_todo(db, todo, newId, created_at) ==
    LET db_todo == [id |-> newId,
                    title |-> todo.title,
                    description |-> todo.description,
                    is_completed |-> FALSE,
                    created_at |-> created_at]
    IN [db |-> db \cup {db_todo}, ret |-> Some(db_todo)]

\* an update that tests the fields for truth instead of for None
update_todo_truthy(db, todo_id, todo) ==
    LET found == get_todo_by_id(db, todo_id) IN
    IF found # None
    THEN LET old == found[1]
             new == [old EXCEPT
                       !.title = IF todo.title # None /\ todo.title # Some("")
                                 THEN todo.title[1] ELSE @,
                       !.description = IF todo.description # None THEN todo.description ELSE @,
                       !.is_completed = IF todo.is_completed = Some(TRUE) THEN TRUE ELSE @]
         IN [db |-> (db \ {old}) \cup {new}, ret |-> Some(new)]
    ELSE [db |-> db, ret |-> None]

\* an update that inserts the row it did not find
update_todo_upsert(db, todo_id, todo) ==
    LET found == get_todo_by_id(db, todo_id) IN
    IF found # None
    THEN LET old == found[1]
             new == [old EXCEPT
                       !.title = IF todo.title # None THEN todo.title[1] ELSE @,
                       !.description = IF todo.description # None THEN todo.description ELSE @,
                       !.is_completed = IF todo.is_completed # None THEN todo.is_completed[1] ELSE @]
         IN [db |-> (db \ {old}) \cup {new}, ret |-> Some(new)]
    ELSE LET new == [id |-> todo_id,
                     title |-> IF todo.title # None THEN todo.title[1] ELSE "",
                     description |-> todo.description,
                     is_completed |-> todo.is_completed = Some(TRUE),
                     created_at |-> 0]
         IN [db |-> db \cup {new}, ret |-> None]

update_todo(db, todo_id, todo) ==
    LET found == get_todo_by_id(db, todo_id) IN
    IF found # None
    THEN LET old == found[1]
             new == [old EXCEPT
                       !.title = IF todo.title # None THEN todo.title[1] ELSE @,
                       !.description = IF todo.description # None THEN todo.description ELSE @,
                       !.is_completed = IF todo.is_completed # None THEN todo.is_completed[1] ELSE @]
         IN [db |-> (db \ {old}) \cup {new}, ret |-> Some(new)]
    ELSE [db |-> db, ret |-> None]

\* a delete that is never committed
delete_todo_no_commit(db, todo_id) ==
    LET found == get_todo_by_id(db, todo_id) IN
    IF found # None
    THEN [db |-> db, ret |-> found]
    ELSE [db |-> db, ret |-> None]

delete_todo(db, todo_id) ==
    LET found == get_todo_by_id(db, todo_id) IN
    IF found # None
    THEN [db |-> db \ {found[1]}, ret |-> found]
    ELSE [db |-> db, ret |-> None]

\* ------------------------------------------------------------------ routers/todos.py
Req(op, id, body) == [op |-> op, id |-> id, body |-> body]
Ok(status, kind, rows) == [status |-> status, kind |-> kind, todos |-> rows, detail |-> ""]
NotFound == [status |-> 404, kind |-> "error", todos |-> <<>>, detail |-> "Todo not found"]
\* a handler that returns whatever crud gave it, without the check for None
OneOr404_unchecked(ret) == Ok(200, "object", ret)

OneOr404(ret) == IF ret = None THEN NotFound ELSE Ok(200, "object", ret)

read_todos ==
    /\ \E result \in get_todos(todos) :
         response' = Ok(200, "list", result)
    /\ request' = Req("read_todos", 0, NoBody)
    /\ UNCHANGED <<todos, nextId, dbNow>>
    /\ UNCHANGED authVars
    /\ UNCHANGED reqs

read_todo(todo_id) ==
    /\ response' = OneOr404(get_todo_by_id(todos, todo_id))
    /\ request' = Req("read_todo", todo_id, NoBody)
    /\ UNCHANGED <<todos, nextId, dbNow>>
    /\ UNCHANGED authVars
    /\ UNCHANGED reqs

\* the row's created_at is the reading of the database clock at the insert,
\* which is not before the reading of any earlier insert
router_create_todo(todo, created_at) ==
    /\ nextId <= MaxTodos
    /\ created_at >= dbNow
    /\ LET r == create_todo(todos, todo, identity(todos, nextId), created_at) IN
         /\ todos' = r.db
         /\ response' = Ok(201, "object", r.ret)
    /\ nextId' = nextId + 1
    /\ dbNow' = created_at
    /\ request' = Req("create_todo", 0,
                      [title |-> Some(todo.title), description |-> todo.description,
                       is_completed |-> None])
    /\ UNCHANGED authVars
    /\ UNCHANGED reqs

router_update_todo(todo_id, todo) ==
    /\ LET r == update_todo(todos, todo_id, todo) IN
         /\ todos' = r.db
         /\ response' = OneOr404(r.ret)
    /\ request' = Req("update_todo", todo_id, todo)
    /\ UNCHANGED <<nextId, dbNow>>
    /\ UNCHANGED authVars
    /\ UNCHANGED reqs

router_delete_todo(todo_id) ==
    /\ LET r == delete_todo(todos, todo_id) IN
         /\ todos' = r.db
         /\ response' = OneOr404(r.ret)
    /\ request' = Req("delete_todo", todo_id, NoBody)
    /\ UNCHANGED <<nextId, dbNow>>
    /\ UNCHANGED authVars
    /\ UNCHANGED reqs

\* ------------------------------------------------------------------ auth.py
SECRET_KEY == "change_this_secret"
ALGORITHM == "HS256"
ACCESS_TOKEN_EXPIRE_MINUTES == 60

Subjects == {"alice", "bob"}
Credentials == Subjects \cup {""}
UserLogin == [username : Credentials, password : Credentials]
Keys == {SECRET_KEY, "other_key"}

\* timedelta(minutes=m) in ticks of the clock
timedelta(minutes) == minutes * 60 * TicksPerSecond

\* a datetime as the NumericDate jwt.encode writes for it: whole seconds
timegm(ticks) == ticks \div TicksPerSecond

\* the HMAC of a payload under a key
HS256(payload, key) == [sub |-> payload.sub, exp |-> payload.exp, key |-> key]

\* jwt.encode(payload, key, algorithm=ALGORITHM)
jwt_encode(payload, key) ==
    [parsable |-> TRUE, payload |-> payload, sig |-> HS256(payload, key)]

\* a decode that lets a token through at the very second it expires
jwt_decode_expires_late(token, key, t) ==
    IF ~token.parsable THEN [raised |-> "DecodeError", payload |-> None]
    ELSE IF token.sig # HS256(token.payload, key)
         THEN [raised |-> "InvalidSignatureError", payload |-> None]
    ELSE IF token.payload.exp # None /\ token.payload.exp[1] * TicksPerSecond < t
         THEN [raised |-> "ExpiredSignatureError", payload |-> None]
    ELSE [raised |-> "", payload |-> Some(token.payload)]

\* jwt.decode(token, key, algorithms=[ALGORITHM]) at time t: the payload, or
\* the exception raised; the signature is checked before the claims
jwt_decode(token, key, t) ==
    IF ~token.parsable THEN [raised |-> "DecodeError", payload |-> None]
    ELSE IF token.sig # HS256(token.payload, key)
         THEN [raised |-> "InvalidSignatureError", payload |-> None]
    ELSE IF token.payload.exp # None /\ token.payload.exp[1] * TicksPerSecond <= t
         THEN [raised |-> "ExpiredSignatureError", payload |-> None]
    ELSE [raised |-> "", payload |-> Some(token.payload)]

create_access_token(subject, t) ==
    LET expire == t + timedelta(ACCESS_TOKEN_EXPIRE_MINUTES)
        to_encode == [sub |-> Some(subject), exp |-> Some(timegm(expire))]
    IN jwt_encode(to_encode, SECRET_KEY)

Returned(sub) == [status |-> 200, detail |-> "", sub |-> Some(sub), token |-> None]
HTTPException(status, detail) == [status |-> status, detail |-> detail, sub |-> None, token |-> None]

\* a verify without the except clause for ExpiredSignatureError
verify_token_one_except(token, t) ==
    LET decoded == jwt_decode(token, SECRET_KEY, t) IN
    IF decoded.raised # "" THEN HTTPException(401, "Invalid token")
    ELSE IF decoded.payload[1].sub = None THEN HTTPException(401, "Invalid token")
    ELSE Returned(decoded.payload[1].sub[1])

verify_token(token, t) ==
    LET decoded == jwt_decode(token, SECRET_KEY, t) IN
    IF decoded.raised = "ExpiredSignatureError" THEN HTTPException(401, "Token expired")
    ELSE IF decoded.raised # "" THEN HTTPException(401, "Invalid token")
    ELSE IF decoded.payload[1].sub = None THEN HTTPException(401, "Invalid token")
    ELSE Returned(decoded.payload[1].sub[1])

\* the handler of @router.post("/login")
login(data, t) ==
    IF data.username # "" /\ data.password # "" /\ data.username = data.password
    THEN [status |-> 200, detail |-> "", sub |-> None,
          token |-> Some(create_access_token(data.username, t))]
    ELSE HTTPException(401, "Invalid credentials")

\* ------------------------------------------------------------------ main.py
\* app.include_router(...): the routers mounted on the application
IncludedRouters == {[router |-> "todos", prefix |-> "/api/todos"]}

\* the application's answer to POST /api/auth/login
route_auth_login(data, t) ==
    IF \E r \in IncludedRouters : r.router = "auth" /\ r.prefix = "/api/auth"
    THEN login(data, t)
    ELSE HTTPException(404, "Not Found")

\* ------------------------------------------------------------------ tokens a caller may present
Garbage == [parsable |-> FALSE, payload |-> [sub |-> None, exp |-> None],
            sig |-> [sub |-> None, exp |-> None, key |-> ""]]

CraftedPayloads ==
    [sub : {None, Some("alice")},
     exp : {None, Some(1), Some(timegm(timedelta(ACCESS_TOKEN_EXPIRE_MINUTES)))}]

\* signed with either key, or a payload under the signature of another one
CraftedTokens ==
    {jwt_encode(p, k) : p \in CraftedPayloads, k \in Keys}
    \cup {[parsable |-> TRUE, payload |-> [p EXCEPT !.sub = Some("bob")],
           sig |-> HS256(p, SECRET_KEY)] : p \in CraftedPayloads}
    \cup {Garbage}

AuthReq(op, data, token, t) == [op |-> op, data |-> data, token |-> token, at |-> t]
NoData == [username |-> "", password |-> ""]

\* ------------------------------------------------------------------ calls into auth.py
Record(resp, t) ==
    IF resp.token # None /\ Cardinality(issued) < MaxTokens
    THEN issued \cup {[token |-> resp.token[1], at |-> t]}
    ELSE issued

call_login(data) ==
    /\ Cardinality(issued) < MaxTokens
    /\ authResponse' = login(data, now)
    /\ authRequest' = AuthReq("login", data, Garbage, now)
    /\ issued' = Record(login(data, now), now)
    /\ UNCHANGED <<now, advances>>
    /\ UNCHANGED storeVars
    /\ UNCHANGED reqs

post_auth_login(data) ==
    /\ Cardinality(issued) < MaxTokens
    /\ authResponse' = route_auth_login(data, now)
    /\ authRequest' = AuthReq("POST /api/auth/login", data, Garbage, now)
    /\ issued' = Record(route_auth_login(data, now), now)
    /\ UNCHANGED <<now, advances>>
    /\ UNCHANGED storeVars
    /\ UNCHANGED reqs

call_verify_token(token) ==
    /\ authResponse' = verify_token(token, now)
    /\ authRequest' = AuthReq("verify_token", NoData, token, now)
    /\ UNCHANGED <<now, advances, issued>>
    /\ UNCHANGED storeVars
    /\ UNCHANGED reqs

\* the application's clock moves on, by a tick or by just under the lifetime
\* of a token
Advance(d) ==
    /\ advances < MaxAdvances
    /\ now' = now + d
    /\ advances' = advances + 1
    /\ UNCHANGED <<issued, authRequest, authResponse>>
    /\ UNCHANGED storeVars
    /\ UNCHANGED reqs

\* ---------------------------------------------------------------------------
\* Requests in flight.  Every route of routers/todos.py declares
\* db: Session = Depends(get_db), so each request runs get_db around its
\* handler, and the handler's crud call is a sequence of statements on that
\* request's own session.
\* ---------------------------------------------------------------------------

Requests == 1..MaxRequests

\* a request that has not arrived yet
Idle == [pc |-> "idle", op |-> "none", id |-> 0, body |-> NoBody,
         db_todo |-> None, status |-> 0, session |-> "none", acquired |-> 0]

Init ==
    /\ todos = {}
    /\ nextId = 1
    /\ dbNow = 0
    /\ request = Req("none", 0, NoBody)
    /\ response = Ok(200, "none", <<>>)
    /\ now = 0
    /\ advances = 0
    /\ issued = {}
    /\ authRequest = AuthReq("none", NoData, Garbage, 0)
    /\ authResponse = HTTPException(0, "")
    /\ reqs = [r \in Requests |-> Idle]

Next ==
    \/ read_todos
    \/ \E id \in 1..nextId : read_todo(id)
    \/ \E todo \in TodoCreate, created_at \in 0..MaxDbNow : router_create_todo(todo, created_at)
    \/ \E id \in 1..nextId, todo \in TodoUpdate : router_update_todo(id, todo)
    \/ \E id \in 1..nextId : router_delete_todo(id)

Spec == Init /\ [][Next]_vars

\* ------------------------------------------------------------------ the todo store
\* C1: an update of an existing todo overwrites exactly the fields among
\* title, description and is_completed that the request carries (non-null)
\* with the requested values, and leaves the other fields of that row, its id
\* and created_at, and every other row as they were; the updated row is the
\* response.
C1_UpdateOverwritesExactlyPresentFields ==
    [][(request'.op = "update_todo")
        => \A old \in todos :
             old.id = request'.id =>
               LET body == request'.body
                   new == [id |-> old.id,
                           title |-> IF body.title = None THEN old.title ELSE body.title[1],
                           description |-> IF body.description = None THEN old.description
                                           ELSE body.description,
                           is_completed |-> IF body.is_completed = None THEN old.is_completed
                                            ELSE body.is_completed[1],
                           created_at |-> old.created_at]
               IN /\ new \in todos'
                  /\ todos' = (todos \ {old}) \cup {new}
                  /\ response' = Ok(200, "object", <<new>>)
                  /\ nextId' = nextId]_vars

\* an update that carried is_completed only, on a todo with a title and a
\* description, next to another row
C1_Witness ==
    /\ request.op = "update_todo"
    /\ request.body = [title |-> None, description |-> None, is_completed |-> Some(TRUE)]
    /\ response.status = 200
    /\ response.todos[1].title = "a"
    /\ response.todos[1].description = Some("d")
    /\ response.todos[1].is_completed = TRUE
    /\ Cardinality(todos) = 2

\* C2: an update with an id no row has answers not-found and changes nothing:
\* the table and the key seed are what they were before it, and with them
\* every result get_todos may give to a list().
C2_UpdateOfMissingIdChangesNothing ==
    [][(/\ request'.op = "update_todo"
        /\ \A r \in todos : r.id # request'.id)
        => /\ response' = NotFound
           /\ todos' = todos
           /\ nextId' = nextId]_vars

\* a not-found update that carried all three fields, on a store with rows
C2_Witness ==
    /\ request.op = "update_todo"
    /\ request.body.title # None
    /\ request.body.description # None
    /\ request.body.is_completed # None
    /\ response.status = 404
    /\ todos # {}
    /\ \A r \in todos : r.id # request.id

\* C3: a delete of an existing todo removes that row, and only that row, and
\* answers with the row as it was; the id stays without a row ever after, and
\* a lookup of an id without a row answers not-found.
C3_DeleteRemovesForGood ==
    [][/\ (request'.op = "delete_todo")
          => \A old \in todos :
               old.id = request'.id =>
                 /\ response' = Ok(200, "object", <<old>>)
                 /\ todos' = todos \ {old}
                 /\ \A r \in todos' : r.id # old.id
       /\ \A id \in TodoIds :
            (id < nextId /\ \A r \in todos : r.id # id) => \A r \in todos' : r.id # id
       /\ (request'.op = "read_todo" /\ \A r \in todos : r.id # request'.id)
          => response' = NotFound]_vars

\* a lookup that answered not-found for an id that had been given to a row
C3_Witness ==
    /\ request.op = "read_todo"
    /\ request.id < nextId
    /\ response.status = 404
    /\ todos # {}

\* C4: list() returns every row of the store and only those, ordered by
\* created_at descending, todos created one after another coming back most
\* recent first (ids are handed out in the order of creation); the empty
\* store gives the empty sequence.
C4_ListMostRecentFirst ==
    (request.op = "read_todos") =>
        /\ response.status = 200
        /\ {response.todos[i] : i \in 1..Len(response.todos)} = todos
        /\ Len(response.todos) = Cardinality(todos)
        /\ \A i, j \in 1..Len(response.todos) :
             i < j => /\ response.todos[i].created_at >= response.todos[j].created_at
                      /\ response.todos[i].id > response.todos[j].id

\* C5: a create stores one new row with is_completed false, the requested
\* title and description, and an id and created_at given by the storage; the
\* response is that row, which a lookup of its id finds; no other row changes.
C5_CreateStoresAndReturnsTheRow ==
    [][(request'.op = "create_todo")
        => /\ response'.status = 201
           /\ Len(response'.todos) = 1
           /\ LET new == response'.todos[1] IN
                /\ new.title = request'.body.title[1]
                /\ new.description = request'.body.description
                /\ new.is_completed = FALSE
                /\ new.id > 0
                /\ new.created_at = dbNow'
                /\ \A r \in todos : r.created_at <= new.created_at
                /\ \A r \in todos : r.id # new.id
                /\ todos' = todos \cup {new}
                /\ get_todo_by_id(todos', new.id) = Some(new)]_vars

\* a create with a description, into a store that had a row
C5_Witness ==
    /\ request.op = "create_todo"
    /\ response.status = 201
    /\ response.todos[1].description = Some("d")
    /\ response.todos[1].title = "a"
    /\ Cardinality(todos) = 2

\* C6: the title of every stored todo is neither null nor the empty string.
C6_TitleNeverEmpty ==
    \A r \in todos : r.title # ""

\* C7: no two rows share an id, and an id that was given to a row is never
\* given to a row created later, also when the first row has been deleted
\* (the ids given so far are those below the seed).
C7_IdsUniqueAndNeverReused ==
    [][/\ \A r1, r2 \in todos' : r1.id = r2.id => r1 = r2
       /\ \A r \in todos' : r.id >= 1 /\ r.id < nextId'
       /\ nextId' >= nextId
       /\ \A r \in todos' : (\A q \in todos : q.id # r.id) => r.id >= nextId]_vars

\* a todo created after a todo with a lower id had been deleted
C7_Witness ==
    /\ request.op = "create_todo"
    /\ response.status = 201
    /\ \E id \in TodoIds : id < response.todos[1].id /\ \A r \in todos : r.id # id

NextAuth ==
    \/ \E data \in UserLogin : call_login(data)
    \/ \E data \in UserLogin : post_auth_login(data)
    \/ \E token \in CraftedTokens \cup {i.token : i \in issued} : call_verify_token(token)
    \/ \E d \in {1, timedelta(ACCESS_TOKEN_EXPIRE_MINUTES) - 1} : Advance(d)

SpecAuth == Init /\ [][NextAuth]_vars
\* ------------------------------------------------------------------ tokens
\* C8: POST /api/auth/login answers 200 with a token for username when
\* username equals password and both are non-empty, and 401 "Invalid
\* credentials" without a token for every other pair.
C8_LoginRouteChecksCredentials ==
    (authRequest.op = "POST /api/auth/login") =>
        IF authRequest.data.username = authRequest.data.password
           /\ authRequest.data.username # ""
        THEN /\ authResponse.status = 200
             /\ authResponse.token # None
             /\ verify_token(authResponse.token[1], authRequest.at)
                  = Returned(authRequest.data.username)
        ELSE authResponse = HTTPException(401, "Invalid credentials")

\* C9 as stated: a token issued for s at time t verifies to s at every time
\* before t + 60 minutes and fails with "Token expired" at every time at or
\* after t + 60 minutes.
C9_ExpiresSixtyMinutesAfterIssue ==
    (authRequest.op = "verify_token") =>
        \A i \in issued :
            (i.token = authRequest.token /\ authRequest.at >= i.at) =>
                IF authRequest.at < i.at + timedelta(ACCESS_TOKEN_EXPIRE_MINUTES)
                THEN /\ authResponse.status = 200
                     /\ authResponse.sub = i.token.payload.sub
                ELSE authResponse = HTTPException(401, "Token expired")

\* C9: the clock never runs back, and a token issued for s at time t carries
\* as exp the whole second that t + 60 minutes falls in; it verifies to s at
\* every time before exp and fails with "Token expired" at every time at or
\* after exp, so that an expired token never verifies again.
C9_ExpiresAtExp ==
    [][/\ now' >= now
       /\ (authRequest'.op = "verify_token") =>
            \A i \in issued' :
                (i.token = authRequest'.token /\ authRequest'.at >= i.at) =>
                    LET exp == timegm(i.at + timedelta(ACCESS_TOKEN_EXPIRE_MINUTES))
                    IN /\ i.token.payload.exp = Some(exp)
                       /\ IF authRequest'.at < exp * TicksPerSecond
                          THEN /\ authResponse'.status = 200
                               /\ authResponse'.sub = i.token.payload.sub
                          ELSE authResponse' = HTTPException(401, "Token expired")]_vars

\* an issued token found expired less than 60 minutes after its issue
C9_Witness ==
    /\ authRequest.op = "verify_token"
    /\ authResponse = HTTPException(401, "Token expired")
    /\ \E i \in issued :
         /\ i.token = authRequest.token
         /\ authRequest.at >= i.at
         /\ authRequest.at < i.at + timedelta(ACCESS_TOKEN_EXPIRE_MINUTES)

\* C10 as stated: verify returns a subject only for a token with a valid
\* signature and a sub; a token with an invalid signature, an unparsable
\* payload or no sub fails with "Invalid token", and any other token fails
\* with "Token expired" at or after its exp.
C10_MalformedBeforeExpired ==
    (authRequest.op = "verify_token") =>
        LET token == authRequest.token
            signed == token.parsable /\ token.sig = HS256(token.payload, SECRET_KEY)
            expired == token.payload.exp # None
                       /\ authRequest.at >= token.payload.exp[1] * TicksPerSecond
        IN /\ authResponse.status = 200 => signed /\ token.payload.sub # None
           /\ (~signed \/ token.payload.sub = None)
                => authResponse = HTTPException(401, "Invalid token")
           /\ (signed /\ token.payload.sub # None /\ expired)
                => authResponse = HTTPException(401, "Token expired")

\* C10: verify returns the sub of a token with a valid signature, a sub and
\* no exp at or before the current time; a token with an invalid signature
\* or an unparsable payload fails with "Invalid token"; a validly signed
\* token fails with "Token expired" at or after its exp, with or without a
\* sub, and with "Invalid token" before it when it has no sub.
C10_VerifyOutcomes ==
    (authRequest.op = "verify_token") =>
        LET token == authRequest.token
            signed == token.parsable /\ token.sig = HS256(token.payload, SECRET_KEY)
            expired == token.payload.exp # None
                       /\ authRequest.at >= token.payload.exp[1] * TicksPerSecond
        IN /\ authResponse.status \in {200, 401}
           /\ authResponse.status = 200 =>
                signed /\ token.payload.sub # None /\ authResponse.sub = token.payload.sub
           /\ ~signed => authResponse = HTTPException(401, "Invalid token")
           /\ (signed /\ expired) => authResponse = HTTPException(401, "Token expired")
           /\ (signed /\ ~expired /\ token.payload.sub = None)
                => authResponse = HTTPException(401, "Invalid token")
           /\ (signed /\ ~expired /\ token.payload.sub # None)
                => authResponse = Returned(token.payload.sub[1])

\* a validly signed token without a sub, found expired
C10_Witness ==
    /\ authRequest.op = "verify_token"
    /\ authRequest.token.parsable
    /\ authRequest.token.sig = HS256(authRequest.token.payload, SECRET_KEY)
    /\ authRequest.token.payload.sub = None
    /\ authResponse = HTTPException(401, "Token expired")
\* ------------------------------------------------------------------ auth.py: require_auth
\* An Authorization header value is a sequence of pieces: a scheme word, a
\* single space " ", or the text of a token (named below).
TokenText ==
    [valid    |-> jwt_encode([sub |-> Some("alice"),
                              exp |-> Some(timegm(timedelta(ACCESS_TOKEN_EXPIRE_MINUTES)))],
                             SECRET_KEY),
     forged   |-> jwt_encode([sub |-> Some("alice"),
                              exp |-> Some(timegm(timedelta(ACCESS_TOKEN_EXPIRE_MINUTES)))],
                             "other_key"),
     no_sub   |-> jwt_encode([sub |-> None,
                              exp |-> Some(timegm(timedelta(ACCESS_TOKEN_EXPIRE_MINUTES)))],
                             SECRET_KEY),
     junk     |-> Garbage]

TokenNames == {"valid", "forged", "no_sub", "junk"}

\* request.headers.get("Authorization"): None when the header is absent
AuthorizationHeaders ==
    {None, Some(<<>>), Some(<<"Bearer">>), Some(<<"Bearer", " ">>)}
    \cup {Some(<<"Bearer", " ", n>>) : n \in TokenNames}
    \cup {Some(<<scheme, " ", "valid">>) : scheme \in {"bearer", "Basic"}}
    \cup {Some(<<"valid">>), Some(<<"Bearer", " ", " ", "valid">>),
          Some(<<"Bearer", " ", "valid", " ", "valid">>)}

\* auth.startswith("Bearer ")
startswith_Bearer(auth) ==
    Len(auth) >= 2 /\ auth[1] = "Bearer" /\ auth[2] = " "

\* auth.split(" ", 1)[1]: what follows the first space
split_1(auth) ==
    LET first == CHOOSE i \in 1..Len(auth) :
                     auth[i] = " " /\ \A j \in 1..(i - 1) : auth[j] # " "
    IN SubSeq(auth, first + 1, Len(auth))

\* the string handed to jwt.decode, as the token it spells: only the exact
\* text of a token has segments and a signature that can be checked
token_of(text) ==
    IF Len(text) = 1 /\ text[1] \in TokenNames THEN TokenText[text[1]] ELSE Garbage

\* a guard that asks only for a header with a space in it, whatever the scheme
require_auth_any_scheme(header, t) ==
    IF header = None \/ header = Some(<<>>) \/ ~(\E i \in 1..Len(header[1]) : header[1][i] = " ")
    THEN HTTPException(401, "Missing or invalid Authorization header")
    ELSE verify_token(token_of(split_1(header[1])), t)

require_auth(header, t) ==
    IF header = None \/ header = Some(<<>>) \/ ~startswith_Bearer(header[1])
    THEN HTTPException(401, "Missing or invalid Authorization header")
    ELSE verify_token(token_of(split_1(header[1])), t)

call_require_auth(header) ==
    /\ authResponse' = require_auth(header, now)
    /\ authRequest' = [op |-> "require_auth", data |-> NoData, token |-> Garbage,
                       at |-> now, header |-> header]
    /\ UNCHANGED <<now, advances, issued>>
    /\ UNCHANGED storeVars
    /\ UNCHANGED reqs

NextGuard ==
    \/ \E header \in AuthorizationHeaders : call_require_auth(header)
    \/ \E d \in {1, timedelta(ACCESS_TOKEN_EXPIRE_MINUTES) - 1} : Advance(d)

SpecGuard == Init /\ [][NextGuard]_vars

\* C11: require_auth fails with 401 "Missing or invalid Authorization header"
\* whenever the header is absent, empty or does not begin with "Bearer " (the
\* scheme word as written, then a space); in every other case its outcome is
\* the outcome of verify_token on what follows that first space, at the time
\* of the call.
C11_RequireAuthDelegatesToVerify ==
    (authRequest.op = "require_auth") =>
        LET header == authRequest.header
            present == header # None /\ Len(header[1]) > 0
            bearer == present /\ Len(header[1]) >= 2
                      /\ SubSeq(header[1], 1, 2) = <<"Bearer", " ">>
        IN IF ~bearer
           THEN authResponse = HTTPException(401, "Missing or invalid Authorization header")
           ELSE LET part == SubSeq(header[1], 3, Len(header[1])) IN
                /\ authResponse = verify_token(token_of(part), authRequest.at)
                /\ (part = <<"valid">> /\ authRequest.at < timedelta(ACCESS_TOKEN_EXPIRE_MINUTES))
                     => authResponse = Returned("alice")
                /\ (part = <<"valid">> /\ authRequest.at >= timedelta(ACCESS_TOKEN_EXPIRE_MINUTES))
                     => authResponse = HTTPException(401, "Token expired")
                /\ part \in {<<>>, <<"junk">>, <<"forged">>, <<" ", "valid">>,
                             <<"valid", " ", "valid">>}
                     => authResponse = HTTPException(401, "Invalid token")

\* a Bearer header with a good token, let through with the token's subject
C11_Witness ==
    /\ authRequest.op = "require_auth"
    /\ authRequest.header = Some(<<"Bearer", " ", "valid">>)
    /\ authResponse = Returned("alice")
\* ------------------------------------------------------------------ status codes
\* C12: GET, PUT and DELETE on /api/todos/{id} answer 404 "Todo not found"
\* exactly when no row has that id when the request is handled, and 200 with
\* the todo of that id otherwise; POST /api/todos/ answers 201 and GET
\* /api/todos/ answers 200 whatever the store holds.
C12_StatusCodes ==
    [][/\ (request'.op \in {"read_todo", "update_todo", "delete_todo"})
          => IF \A r \in todos : r.id # request'.id
             THEN response' = NotFound
             ELSE /\ response'.status = 200
                  /\ response'.kind = "object"
                  /\ Len(response'.todos) = 1
                  /\ response'.todos[1].id = request'.id
                  /\ request'.op = "read_todo" => response'.todos[1] \in todos
                  /\ request'.op = "delete_todo" => response'.todos[1] \in todos
                  /\ request'.op = "update_todo" => response'.todos[1] \in todos'
       /\ (request'.op = "create_todo")
          => response'.status = 201 /\ response'.kind = "object"
       /\ (request'.op = "read_todos")
          => response'.status = 200 /\ response'.kind = "list"]_vars

\* a DELETE answered 404 while the store holds other rows
C12_Witness ==
    /\ request.op = "delete_todo"
    /\ response = NotFound
    /\ todos # {}

\* ---------------------------------------------------------------------------
\* The handlers statement by statement, several requests at a time.
\* SessionLocal is sessionmaker(autocommit=False, autoflush=False): a query
\* reads what is committed, attribute assignments stay in the session, and
\* db.commit() flushes them as one statement and commits it.
\* ---------------------------------------------------------------------------

\* if todo.title is not None: db_todo.title = todo.title, and the same for
\* description and is_completed: the object as the session holds it
setattrs(db_todo, todo) ==
    [db_todo EXCEPT
       !.title = IF todo.title # None THEN todo.title[1] ELSE @,
       !.description = IF todo.description # None THEN todo.description ELSE @,
       !.is_completed = IF todo.is_completed # None THEN todo.is_completed[1] ELSE @]

\* db.commit() after the assignments: the unit of work writes the columns
\* whose value differs from the one loaded, in one UPDATE ... WHERE id = ?,
\* and writes nothing when no column differs.  An UPDATE that matches no row
\* raises StaleDataError and the transaction is rolled back.
flush_update(db, loaded, new) ==
    IF new = loaded
    THEN [db |-> db, raised |-> FALSE]
    ELSE IF \E cur \in db : cur.id = loaded.id
         THEN LET cur == CHOOSE c \in db : c.id = loaded.id
                  row == [cur EXCEPT
                            !.title = IF new.title # loaded.title THEN new.title ELSE @,
                            !.description = IF new.description # loaded.description
                                            THEN new.description ELSE @,
                            !.is_completed = IF new.is_completed # loaded.is_completed
                                             THEN new.is_completed ELSE @]
              IN [db |-> (db \ {cur}) \cup {row}, raised |-> FALSE]
         ELSE [db |-> db, raised |-> TRUE]

\* db.delete(db_todo); db.commit(): DELETE ... WHERE id = ?; a DELETE that
\* matches no row is reported as a warning only
flush_delete(db, loaded) ==
    [db |-> {cur \in db : cur.id # loaded.id}, raised |-> FALSE]

\* a get_db that closes the session only when the handler returned
get_db_finally_on_success(req) ==
    [req EXCEPT !.pc = "done",
                !.session = IF req.status = 200 THEN "closed" ELSE @]

\* finally: db.close()
get_db_finally(req) ==
    [req EXCEPT !.pc = "done", !.session = "closed"]

\* the handler returns or raises: its status is fixed, its arguments and
\* locals are gone, and get_db is resumed
returned(req, status) ==
    [req EXCEPT !.pc = "finally", !.status = status, !.id = 0, !.body = NoBody,
                !.db_todo = None]

\* db = SessionLocal(); try: yield db -- the request arrives and its handler
\* is entered with a session of its own
get_db_enter(r, op, todo_id, todo) ==
    /\ reqs[r].pc = "idle"
    /\ \A q \in Requests : q < r => reqs[q].pc # "idle"
    /\ reqs' = [reqs EXCEPT ![r] = [@ EXCEPT !.pc = "handler", !.op = op, !.id = todo_id,
                                             !.body = todo, !.session = "open",
                                             !.acquired = @ + 1]]
    /\ UNCHANGED storeVars
    /\ UNCHANGED authVars

\* crud.get_todo_by_id(db, todo_id), called by read_todo directly and by
\* crud.update_todo and crud.delete_todo first; None makes the handler raise
\* HTTPException(404)
load(r) ==
    /\ reqs[r].pc = "handler"
    /\ LET found == get_todo_by_id(todos, reqs[r].id) IN
       reqs' = [reqs EXCEPT ![r] =
                  IF found = None
                  THEN returned(@, 404)
                  ELSE IF reqs[r].op = "read_todo"
                       THEN returned(@, 200)
                       ELSE [@ EXCEPT !.pc = "commit", !.db_todo = found]]
    /\ UNCHANGED storeVars
    /\ UNCHANGED authVars

\* db.commit() of crud.update_todo and of crud.delete_todo
commit(r) ==
    /\ reqs[r].pc = "commit"
    /\ LET loaded == reqs[r].db_todo[1]
           done == IF reqs[r].op = "update_todo"
                   THEN flush_update(todos, loaded, setattrs(loaded, reqs[r].body))
                   ELSE flush_delete(todos, loaded)
       IN /\ todos' = done.db
          /\ reqs' = [reqs EXCEPT ![r] =
                        IF done.raised
                        THEN returned(@, 500)
                        ELSE IF reqs[r].op = "update_todo"
                             THEN [@ EXCEPT !.pc = "refresh"]
                             ELSE returned(@, 200)]
    /\ UNCHANGED <<nextId, dbNow, request, response>>
    /\ UNCHANGED authVars

\* db.refresh(db_todo): reads the row again; InvalidRequestError when it is gone
refresh(r) ==
    /\ reqs[r].pc = "refresh"
    /\ LET found == get_todo_by_id(todos, reqs[r].id) IN
       reqs' = [reqs EXCEPT ![r] =
                  IF found = None THEN returned(@, 500) ELSE returned(@, 200)]
    /\ UNCHANGED storeVars
    /\ UNCHANGED authVars

\* the generator is resumed when the handler has returned or raised
get_db_exit(r) ==
    /\ reqs[r].pc = "finally"
    /\ reqs' = [reqs EXCEPT ![r] = get_db_finally(@)]
    /\ UNCHANGED storeVars
    /\ UNCHANGED authVars

\* one row is in the table when the requests start to arrive
StoredRows ==
    [id : {1}, title : {"a"}, description : {None},
     is_completed : BOOLEAN, created_at : {0}]

\* the bodies of the updates in flight: description and is_completed
ConcurrentUpdates == {todo \in TodoUpdate : todo.title = None}

InitConc ==
    /\ \E row \in StoredRows : todos = {row}
    /\ nextId = 2
    /\ dbNow = 0
    /\ request = Req("none", 0, NoBody)
    /\ response = Ok(200, "none", <<>>)
    /\ now = 0
    /\ advances = 0
    /\ issued = {}
    /\ authRequest = AuthReq("none", NoData, Garbage, 0)
    /\ authResponse = HTTPException(0, "")
    /\ reqs = [r \in Requests |-> Idle]

handle(r) == load(r) \/ commit(r) \/ refresh(r) \/ get_db_exit(r)

NextConc ==
    \/ \E r \in Requests, id \in 1..(nextId - 1) :
          \/ get_db_enter(r, "read_todo", id, NoBody)
          \/ get_db_enter(r, "delete_todo", id, NoBody)
          \/ \E todo \in ConcurrentUpdates : get_db_enter(r, "update_todo", id, todo)
    \/ \E r \in Requests : load(r)
    \/ \E r \in Requests : commit(r)
    \/ \E r \in Requests : refresh(r)
    \/ \E r \in Requests : get_db_exit(r)

SpecConc == InitConc /\ [][NextConc]_vars

\* a worker runs each handler, and the dependency's exit code, to the end
SpecConcFair == SpecConc /\ \A r \in Requests : WF_vars(handle(r))

\* ---------------------------------------------------------------------------
\* C13: under every interleaving of update and delete requests on one id, a
\* commit either leaves the table as it was or leaves it as the whole request
\* applied to the current row would (every field the update provides has the
\* provided value, a delete has removed the row), and no step brings back a
\* row that is gone.
\* ---------------------------------------------------------------------------
C13_AllOrNothing ==
    [][/\ \A r \in Requests :
            (reqs[r].pc = "commit" /\ reqs'[r].pc # "commit")
            => \/ todos' = todos
               \/ /\ reqs[r].op = "update_todo"
                  /\ todos' = update_todo(todos, reqs[r].id, reqs[r].body).db
               \/ /\ reqs[r].op = "delete_todo"
                  /\ todos' = delete_todo(todos, reqs[r].id).db
       /\ \A id \in TodoIds :
            (\A row \in todos : row.id # id) => (\A row \in todos' : row.id # id)]_vars

\* ---------------------------------------------------------------------------
\* C14: every todo request acquires exactly one session, the session of a
\* request that has arrived is eventually closed whatever the handler did
\* (200, 404, or a storage call that raised), and no session is open once
\* its request is done.
\* ---------------------------------------------------------------------------
C14_SessionReleased ==
    /\ [](\A r \in Requests :
            /\ reqs[r].pc # "idle" => reqs[r].acquired = 1
            /\ reqs[r].pc = "idle" => reqs[r].acquired = 0 /\ reqs[r].session = "none"
            /\ reqs[r].pc = "done" => reqs[r].session = "closed"
            /\ reqs[r].pc \in {"handler", "commit", "refresh", "finally"}
                  => reqs[r].session = "open")
    /\ \A r \in Requests : (reqs[r].session = "open") ~> (reqs[r].session = "closed")

\* an update whose row was deleted under it has raised in db.commit() and is
\* done, next to the delete that returned
C14_Witness ==
    \E r \in Requests, q \in Requests :
        /\ reqs[r].op = "update_todo" /\ reqs[r].pc = "done"
        /\ reqs[r].status = 500 /\ reqs[r].session = "closed"
        /\ reqs[q].op = "delete_todo" /\ reqs[q].pc = "done"
        /\ reqs[q].status = 200 /\ reqs[q].session = "closed"

====
